---- MODULE Spec2Model ----
(***************************************************************************)
(* Model of the polling callback timer of CallbackTimer.cpp / .h.          *)
(*                                                                         *)
(* The object is the record `timer`, one field per data member, under the  *)
(* member's own name.  Every member function is an operator that takes the *)
(* object (and the reading of millis() where the function reads the clock) *)
(* and yields the object after the call together with the returned value;  *)
(* an action applies one public member function to the current object.     *)
(*                                                                         *)
(* millis() is the variable `now`.  It is increased by Advance, one        *)
(* millisecond at a time, up to MaxTime; the wraparound of the time source *)
(* is not exercised.  `unsigned long` arithmetic is modulo ULongMod and    *)
(* `int` arithmetic is two's complement on IntBits bits.                   *)
(***************************************************************************)
EXTENDS Integers, Sequences, FiniteSets

(* ------------------------------ bounds --------------------------------- *)

\* Spec, every member function called in any order: the largest value of
\* millis(), the largest duration / period argument, the largest repetition count.
MaxTime == 3
MaxDur == 1
MaxTimes == 2

\* SpecCycle, SpecPolled and SpecReentrant, schedule calls and tick() only: the
\* same three (SpecPolled has its own largest value of millis()).
CycleTime == 5
CycleDur == 2
CycleTimes == 3

\* SpecPolled, tick() at every value of millis(): the largest value of millis().
PolledTime == 8

\* Width of `int` (the repetition counter), scaled down.
IntBits == 3

\* Width of `unsigned long` (durations and time stamps), scaled down.
ULongBits == 16

\* The delay, in milliseconds, that the rescheduling callback asks for.
ReDelay == 1

(* --------------------------- value domains ----------------------------- *)

IntMod   == 2 ^ IntBits
IntMin   == 0 - 2 ^ (IntBits - 1)
IntMax   == 2 ^ (IntBits - 1) - 1
ULongMod == 2 ^ ULongBits

\* Values an `int` member that was never given a value is taken to hold.
UninitInts == {0 - 1, 0, 1}

\* Values the `unsigned long` member _last, which no constructor gives a value,
\* is taken to hold: zero, a time stamp that millis() has yet to reach, and
\* the largest value.
UninitStamps == {0, 1, ULongMod - 1}

\* The functions the embedder can pass as `task`.
Tasks == {"A", "B"}

\* nullptr, and a pointer that was never given a value.
NULL == "null"
WILD == "wild"

\* The arguments of the calls.  The count -1 is the one setInterval(period,
\* task) passes on; the explicit counts are 0 and up.
Durations == 0 .. MaxDur
TimesArgs == 0 .. MaxTimes
CycleDurations == 0 .. CycleDur
CycleTimesArgs == 0 .. CycleTimes

(* ---------------------------- arithmetic ------------------------------- *)

\* `_repetitionCount--` on an int of IntBits bits.
DecInt(c) == ((c - 1 - IntMin) % IntMod) + IntMin

(* ------------------------ the member functions ------------------------- *)

\* inline unsigned long getEllapsed() { return millis() - _last; }
getEllapsed(t, m) == (m - t._last) % ULongMod

\* inline bool hasStarted() { return _started; }
hasStarted(t) == t._started

\* isDone() that reports the duration reached one millisecond early.
isDoneEarly(t, m) ==
    IF hasStarted(t) /\ getEllapsed(t, m) + 1 >= t._time
    THEN [t |-> [t EXCEPT !._done = TRUE], r |-> TRUE]
    ELSE [t |-> t, r |-> FALSE]

\* bool Timer::isDone()
isDone(t, m) ==
    IF hasStarted(t) /\ getEllapsed(t, m) >= t._time
    THEN [t |-> [t EXCEPT !._done = TRUE], r |-> TRUE]
    ELSE [t |-> t, r |-> FALSE]

\* inline bool isRunning() { return (hasStarted() && !isDone()); }
isRunning(t, m) ==
    IF hasStarted(t)
    THEN LET d == isDone(t, m) IN [t |-> d.t, r |-> ~d.r]
    ELSE [t |-> t, r |-> FALSE]

\* void Timer::set(unsigned long duration)
set(t, duration) == [t EXCEPT !._time = duration]

\* void Timer::start()
start(t, m) == [t EXCEPT !._last = m, !._done = FALSE, !._started = TRUE]

\* unsigned long Timer::stop()
stop(t, m) ==
    LET d  == isDone(t, m)
        t1 == [d.t EXCEPT !._done = d.r]
        k  == isRunning(t1, m)
        t2 == IF k.r THEN [k.t EXCEPT !._last = m] ELSE k.t
        t3 == [t2 EXCEPT !._started = FALSE]
    IN  [t |-> t3, r |-> getEllapsed(t3, m)]

\* void Timer::reset()
reset(t, m) ==
    LET s == stop(t, m).t
        d == isDone(s, m)
    IN  [d.t EXCEPT !._done = d.r,
                    !._last = m,
                    !._repetitionCount = 0,
                    !._callback = NULL]

\* setTimeout(task) without its isRunning() guard.
setTimeoutTaskUnguarded(t, m, task) ==
    [t |-> start([t EXCEPT !._callback = task, !._repeatMode = FALSE], m), r |-> TRUE]

\* bool Timer::setTimeout(void (*task)())
setTimeoutTask(t, m, task) ==
    LET k == isRunning(t, m) IN
    IF k.r
    THEN [t |-> k.t, r |-> FALSE]
    ELSE [t |-> start([k.t EXCEPT !._callback = task, !._repeatMode = FALSE], m),
          r |-> TRUE]

\* bool Timer::setTimeout(unsigned long delayPeriod, void (*task)())
setTimeout(t, m, delayPeriod, task) ==
    LET k == isRunning(t, m) IN
    IF k.r
    THEN [t |-> k.t, r |-> FALSE]
    ELSE setTimeoutTask(set(k.t, delayPeriod), m, task)

\* bool Timer::setInterval(unsigned long period, int times, void (*task)())
setIntervalTimes(t, m, period, times, task) ==
    LET k == isRunning(t, m) IN
    IF k.r \/ k.t._execOnce
    THEN [t |-> k.t, r |-> FALSE]
    ELSE LET t1 == reset(k.t, m)
             t2 == [t1 EXCEPT !._callback = task]
             t3 == set(t2, period)
             t4 == [t3 EXCEPT !._repetitionCount = times, !._repeatMode = TRUE]
         IN  [t |-> start(t4, m), r |-> TRUE]

\* bool Timer::setInterval(unsigned long period, void (*task)())
setInterval(t, m, period, task) == setIntervalTimes(t, m, period, 0 - 1, task)

\* A callback of the embedder that schedules again on the same timer:
\*     void rearm() { timer.setTimeout(ReDelay, taskB); }
REARM == "R"

\* `_callback()`: the call goes through when the pointer is a function; through
\* nullptr or a pointer without a value the program does not continue.
Callable(cb) == cb \in Tasks \cup {REARM}

\* `_callback()` through a pointer to a function: what the body of the function
\* does to the timer, and what the schedule calls in it returned.
invoke(t, m, cb) ==
    IF cb = REARM
    THEN LET k == setTimeout(t, m, ReDelay, "B") IN [t |-> k.t, inner |-> <<k.r>>]
    ELSE [t |-> t, inner |-> <<>>]

\* tick() did nothing to `t`.
Idle(t) == [t |-> t, calls |-> <<>>, inner |-> <<>>, crash |-> FALSE]

\* tick() called through a pointer that is no function.
Crash(t) == [t |-> t, calls |-> <<t._callback>>, inner |-> <<>>, crash |-> TRUE]

\* The first-tick fire without its `_repetitionCount--`.
tickFirstNoDecrement(t, m) ==
    IF t._repeatMode /\ ~t._execOnce
    THEN LET t1 == [t EXCEPT !._execOnce = TRUE] IN
         IF Callable(t1._callback)
         THEN LET c == invoke(t1, m, t1._callback)
              IN  [t |-> c.t, calls |-> <<t1._callback>>, inner |-> c.inner,
                   crash |-> FALSE]
         ELSE Crash(t1)
    ELSE Idle(t)

\* Lines 38-42 of tick(): the fire on the first tick of an interval.
tickFirst(t, m) ==
    IF t._repeatMode /\ ~t._execOnce
    THEN LET t1 == [t EXCEPT !._execOnce = TRUE,
                             !._repetitionCount = DecInt(t._repetitionCount)] IN
         IF Callable(t1._callback)
         THEN LET c == invoke(t1, m, t1._callback)
              IN  [t |-> c.t, calls |-> <<t1._callback>>, inner |-> c.inner,
                   crash |-> FALSE]
         ELSE Crash(t1)
    ELSE Idle(t)

\* Lines 49-51 of tick(): the one-shot branch.
tickOnce(t, m) ==
    IF Callable(t._callback)
    THEN LET c == invoke(t, m, t._callback)
         IN  [t |-> reset(c.t, m), calls |-> <<t._callback>>, inner |-> c.inner,
              crash |-> FALSE]
    ELSE Crash(t)

\* Lines 52-55 of tick(): the branch of an interval with repetitions left.
tickRepeat(t, m) ==
    IF Callable(t._callback)
    THEN LET c == invoke(t, m, t._callback)
         IN  [t |-> start([c.t EXCEPT !._repetitionCount =
                                         DecInt(c.t._repetitionCount)], m),
              calls |-> <<t._callback>>, inner |-> c.inner, crash |-> FALSE]
    ELSE Crash(t)

\* Lines 56-60 of tick(): the branch of the exhausted counter.
tickExhausted(t, m) ==
    LET c == t._repetitionCount
    IN  Idle([reset(t, m) EXCEPT !._repetitionCount = c])

\* The elapsed-time check of tick() whose one-shot branch forgets reset().
tickDueNoReset(t, m) ==
    LET d == isDone(t, m) IN
    IF ~d.r THEN Idle(d.t)
    ELSE IF d.t._callback = NULL THEN Idle(d.t)
    ELSE IF ~d.t._repeatMode
         THEN IF Callable(d.t._callback)
              THEN [Idle(invoke(d.t, m, d.t._callback).t)
                       EXCEPT !.calls = <<d.t._callback>>,
                              !.inner = invoke(d.t, m, d.t._callback).inner]
              ELSE Crash(d.t)
    ELSE IF d.t._repetitionCount # 0 THEN tickRepeat(d.t, m)
    ELSE tickExhausted(d.t, m)

\* The elapsed-time check of tick() whose exhausted branch forgets reset().
tickDueNoStop(t, m) ==
    LET d == isDone(t, m) IN
    IF ~d.r THEN Idle(d.t)
    ELSE IF d.t._callback = NULL THEN Idle(d.t)
    ELSE IF ~d.t._repeatMode THEN tickOnce(d.t, m)
    ELSE IF d.t._repetitionCount # 0 THEN tickRepeat(d.t, m)
    ELSE Idle(d.t)

\* Lines 43-60 of tick(): the elapsed-time check and its three branches.
tickDue(t, m) ==
    LET d == isDone(t, m) IN
    IF ~d.r THEN Idle(d.t)
    ELSE IF d.t._callback = NULL THEN Idle(d.t)
    ELSE IF ~d.t._repeatMode THEN tickOnce(d.t, m)
    ELSE IF d.t._repetitionCount # 0 THEN tickRepeat(d.t, m)
    ELSE tickExhausted(d.t, m)

\* void Timer::tick(): `calls` lists the pointers called, in order; `inner`
\* what the schedule calls made by the functions called returned; `crash` says
\* that the last pointer called was no function.
tick(t, m) ==
    LET f == tickFirst(t, m) IN
    IF f.crash THEN f
    ELSE LET g == tickDue(f.t, m)
         IN  [t |-> g.t, calls |-> f.calls \o g.calls,
              inner |-> f.inner \o g.inner, crash |-> g.crash]

(* ------------------------------- state --------------------------------- *)

VARIABLES
    timer,      \* the Timer object
    now,        \* millis()
    crashed,    \* a call went through a pointer that is no function
    op,         \* the member function called last
    ret,        \* what it returned
    calls,      \* the pointers the last tick() called
    arm,        \* the schedule call that succeeded last, and what happened since
    stops       \* what the stop() calls made in a row last returned (the last two)

vars == <<timer, now, crashed, op, ret, calls, arm, stops>>

\* Timer() : _time(1000)
DefaultDuration == 1000

NoArm == [kind |-> "none", at |-> 0, dur |-> 0, times |-> 0, task |-> NULL,
          fired |-> 0, last |-> 0 - 1, clean |-> FALSE, stopped |-> FALSE]

\* Timer() and Timer(unsigned long duration) give _time a value and nothing
\* else: every other member starts with whatever the storage holds.
Init ==
    /\ timer \in [_repeatMode      : BOOLEAN,
                  _repetitionCount : UninitInts,
                  _time            : Durations \cup {DefaultDuration},
                  _last            : UninitStamps,
                  _done            : BOOLEAN,
                  _started         : BOOLEAN,
                  _execOnce        : BOOLEAN,
                  _callback        : {NULL, WILD}]
    /\ now = 0
    /\ crashed = FALSE
    /\ op = "new"
    /\ ret = FALSE
    /\ calls = <<>>
    /\ arm = NoArm
    /\ stops = <<>>

\* A Timer with static storage duration (a global of the sketch): its storage
\* is zero-initialised before the constructor gives _time its value.
InitStatic ==
    /\ timer \in [_repeatMode      : {FALSE},
                  _repetitionCount : {0},
                  _time            : Durations \cup {DefaultDuration},
                  _last            : {0},
                  _done            : {FALSE},
                  _started         : {FALSE},
                  _execOnce        : {FALSE},
                  _callback        : {NULL}]
    /\ now = 0
    /\ crashed = FALSE
    /\ op = "new"
    /\ ret = FALSE
    /\ calls = <<>>
    /\ arm = NoArm
    /\ stops = <<>>

(* ------------------------- the history `arm` --------------------------- *)

\* A schedule call succeeded: a new cycle begins.
Armed(kind, t, times, task) ==
    [kind |-> kind, at |-> now, dur |-> t._time, times |-> times, task |-> task,
     fired |-> 0, last |-> 0 - 1, clean |-> TRUE, stopped |-> FALSE]

\* set, start, stop or reset ran on the object after it was armed (called by the
\* embedder, or from inside a schedule call that then returned false): the cycle
\* is no longer the one the schedule call set up, and only its kind, its task and
\* whether it was stopped are remembered.
Disturbed(a, stopping) ==
    IF a.kind = "none" THEN a
    ELSE [NoArm EXCEPT !.kind = a.kind, !.task = a.task, !.stopped = stopping]

\* A schedule call returned false; `touched` when it ran set() before that.
Rejected(a, touched) ==
    IF a.kind = "none" THEN a
    ELSE IF touched THEN Disturbed(a, FALSE)
    ELSE [a EXCEPT !.stopped = FALSE]

\* The number of calls of a tick() that reached a function.
Reached(cs) == Cardinality({i \in DOMAIN cs : Callable(cs[i])})

\* The calls of a tick() counted into the cycle, with the value of millis() at
\* the last of them (-1 before the first).
Counted(a, cs) ==
    IF a.clean
    THEN [a EXCEPT !.fired = @ + Reached(cs),
                   !.last  = IF Reached(cs) > 0 THEN now ELSE @]
    ELSE a

\* stop() returned `r`: of the returns of the stop() calls in a row, the last
\* two are kept.
InARow(ss, r) == IF ss = <<>> THEN <<r>> ELSE <<ss[Len(ss)], r>>

(* ------------------------------ actions -------------------------------- *)

\* The time source moves on by one millisecond, up to `limit`.
AdvanceTo(limit) ==
    /\ ~crashed
    /\ now < limit
    /\ now' = now + 1
    /\ op' = "advance" /\ ret' = FALSE /\ calls' = <<>>
    /\ UNCHANGED <<timer, crashed, arm, stops>>

\* timer.setTimeout(delayPeriod, task)
CallSetTimeout(ds, ts) ==
    /\ ~crashed
    /\ \E delayPeriod \in ds, task \in ts :
         LET k == setTimeout(timer, now, delayPeriod, task) IN
         /\ timer' = k.t
         /\ ret' = k.r
         /\ arm' = IF k.r THEN Armed("timeout", k.t, 0, task)
                   ELSE Rejected(arm, ~isRunning(timer, now).r)
    /\ op' = "setTimeout" /\ calls' = <<>>
    /\ stops' = <<>>
    /\ UNCHANGED <<now, crashed>>

\* timer.setInterval(period, task)
CallSetInterval(ds) ==
    /\ ~crashed
    /\ \E period \in ds, task \in Tasks :
         LET k == setInterval(timer, now, period, task) IN
         /\ timer' = k.t
         /\ ret' = k.r
         /\ arm' = IF k.r THEN Armed("interval", k.t, 0 - 1, task)
                   ELSE Rejected(arm, FALSE)
    /\ op' = "setInterval" /\ calls' = <<>>
    /\ stops' = <<>>
    /\ UNCHANGED <<now, crashed>>

\* timer.setInterval(period, times, task)
CallSetIntervalTimes(ds, ns) ==
    /\ ~crashed
    /\ \E period \in ds, times \in ns, task \in Tasks :
         LET k == setIntervalTimes(timer, now, period, times, task) IN
         /\ timer' = k.t
         /\ ret' = k.r
         /\ arm' = IF k.r THEN Armed("interval", k.t, times, task)
                   ELSE Rejected(arm, FALSE)
    /\ op' = "setIntervalTimes" /\ calls' = <<>>
    /\ stops' = <<>>
    /\ UNCHANGED <<now, crashed>>

Advance == AdvanceTo(MaxTime)

SetTimeout == CallSetTimeout(Durations, Tasks)

\* timer.setTimeout(task)
SetTimeoutTask ==
    /\ ~crashed
    /\ \E task \in Tasks :
         LET k == setTimeoutTask(timer, now, task) IN
         /\ timer' = k.t
         /\ ret' = k.r
         /\ arm' = IF k.r THEN Armed("timeout", k.t, 0, task)
                   ELSE Rejected(arm, FALSE)
    /\ op' = "setTimeoutTask" /\ calls' = <<>>
    /\ stops' = <<>>
    /\ UNCHANGED <<now, crashed>>

SetInterval == CallSetInterval(Durations)

SetIntervalTimes == CallSetIntervalTimes(Durations, TimesArgs)

\* timer.tick()
Tick ==
    /\ ~crashed
    /\ LET k == tick(timer, now) IN
         /\ timer' = k.t
         /\ calls' = k.calls
         /\ crashed' = k.crash
         /\ arm' = Counted(arm, k.calls)
    /\ op' = "tick" /\ ret' = FALSE
    /\ stops' = <<>>
    /\ UNCHANGED now

\* timer.set(duration)
Set ==
    /\ ~crashed
    /\ \E duration \in Durations : timer' = set(timer, duration)
    /\ arm' = Disturbed(arm, arm.stopped)
    /\ op' = "set" /\ ret' = FALSE /\ calls' = <<>>
    /\ stops' = <<>>
    /\ UNCHANGED <<now, crashed>>

\* timer.start()
Start ==
    /\ ~crashed
    /\ timer' = start(timer, now)
    /\ arm' = Disturbed(arm, FALSE)
    /\ op' = "start" /\ ret' = FALSE /\ calls' = <<>>
    /\ stops' = <<>>
    /\ UNCHANGED <<now, crashed>>

\* timer.stop()
Stop ==
    /\ ~crashed
    /\ LET k == stop(timer, now) IN
         /\ timer' = k.t
         /\ ret' = k.r
         /\ stops' = InARow(stops, k.r)
    /\ arm' = Disturbed(arm, TRUE)
    /\ op' = "stop" /\ calls' = <<>>
    /\ UNCHANGED <<now, crashed>>

\* timer.reset()
Reset ==
    /\ ~crashed
    /\ timer' = reset(timer, now)
    /\ arm' = Disturbed(arm, arm.stopped)
    /\ op' = "reset" /\ ret' = FALSE /\ calls' = <<>>
    /\ stops' = <<>>
    /\ UNCHANGED <<now, crashed>>

\* timer.isDone()
IsDone ==
    /\ ~crashed
    /\ LET k == isDone(timer, now) IN timer' = k.t /\ ret' = k.r
    /\ op' = "isDone" /\ calls' = <<>>
    /\ stops' = <<>>
    /\ UNCHANGED <<now, crashed, arm>>

\* timer.isRunning()
IsRunning ==
    /\ ~crashed
    /\ LET k == isRunning(timer, now) IN timer' = k.t /\ ret' = k.r
    /\ op' = "isRunning" /\ calls' = <<>>
    /\ stops' = <<>>
    /\ UNCHANGED <<now, crashed, arm>>

\* The embedder calls any member function at any time.
Next ==
    \/ Advance
    \/ SetTimeout
    \/ SetTimeoutTask
    \/ SetInterval
    \/ SetIntervalTimes
    \/ Tick
    \/ Set
    \/ Start
    \/ Stop
    \/ Reset
    \/ IsDone
    \/ IsRunning

Spec == Init /\ [][Next]_vars

\* The same embedder, on a Timer with static storage duration.
SpecStatic == InitStatic /\ [][Next]_vars

\* The embedder schedules and polls, at any times, and calls nothing else.
CycleAdvance == AdvanceTo(CycleTime)

CycleSetTimeout == CallSetTimeout(CycleDurations, Tasks)

CycleSetInterval == CallSetInterval(CycleDurations)

CycleSetIntervalTimes == CallSetIntervalTimes(CycleDurations, CycleTimesArgs)

NextCycle ==
    \/ CycleAdvance
    \/ CycleSetTimeout
    \/ SetTimeoutTask
    \/ CycleSetInterval
    \/ CycleSetIntervalTimes
    \/ Tick

SpecCycle == Init /\ [][NextCycle]_vars

\* The embedder schedules intervals on a Timer with static storage duration and
\* polls at every value of millis(): the time source moves on only when the call
\* made last was tick().
PolledAdvance == op = "tick" /\ AdvanceTo(PolledTime)

NextPolled ==
    \/ PolledAdvance
    \/ CycleSetInterval
    \/ CycleSetIntervalTimes
    \/ Tick

SpecPolled == InitStatic /\ [][NextPolled]_vars

\* The embedder schedules one-shots and polls, on a Timer with static storage
\* duration; one of the functions it schedules is the one that schedules again.
RearmSetTimeout == CallSetTimeout(CycleDurations, {REARM})

NextReentrant ==
    \/ CycleAdvance
    \/ CycleSetTimeout
    \/ RearmSetTimeout
    \/ Tick

SpecReentrant == InitStatic /\ [][NextReentrant]_vars

(* ------------------------------ claims --------------------------------- *)

\* The four schedule calls.
SchedOps == {"setTimeout", "setTimeoutTask", "setInterval", "setIntervalTimes"}

\* The members a rejected schedule call has to leave alone.
SameCycle(t1, t2) ==
    /\ t1._callback = t2._callback
    /\ t1._time = t2._time
    /\ t1._last = t2._last
    /\ t1._started = t2._started
    /\ t1._repeatMode = t2._repeatMode
    /\ t1._repetitionCount = t2._repetitionCount

\* A one-shot armed by setTimeout; since then only tick() and rejected schedule
\* calls that ran neither set, start, stop nor reset.
OneShot == arm.kind = "timeout" /\ arm.clean

\* A counted interval armed by setInterval(period >= 1, times >= 1, task); since
\* then only tick() and rejected schedule calls.
CountedRepeat ==
    arm.kind = "interval" /\ arm.clean /\ arm.times >= 1 /\ arm.dur >= 1

\* An interval armed by setInterval(period >= 1, task); since then only tick()
\* and rejected schedule calls.
InfiniteRepeat ==
    arm.kind = "interval" /\ arm.clean /\ arm.times = 0 - 1 /\ arm.dur >= 1

\* A callback registered by a schedule call that succeeded is still registered:
\* a one-shot's has not been invoked, and reset() has not cleared it.
Awaiting == arm.kind # "none" /\ timer._callback = arm.task

\* C1: a one-shot armed by setTimeout and then only polled invokes its task at
\* most once; until then the task stays registered and the timer started; a
\* tick() at or after the deadline leaves it invoked exactly once; once invoked,
\* isRunning() is false and the callback is cleared, so later ticks invoke
\* nothing.
OneShotFiresOnce ==
    OneShot =>
        /\ arm.fired <= 1
        /\ (arm.fired = 0 => timer._callback = arm.task /\ hasStarted(timer))
        /\ (arm.fired = 1 => ~isRunning(timer, now).r /\ timer._callback = NULL)
        /\ (op = "tick" /\ now - arm.at >= arm.dur => arm.fired = 1)

\* A tick() that came after the one that invoked the one-shot's task, and
\* invoked nothing.
OneShotFiresOnceWitness ==
    /\ OneShot /\ arm.dur >= 1 /\ arm.fired = 1
    /\ op = "tick" /\ calls = <<>>
    /\ now > arm.at + arm.dur

\* C2: while less than the duration has elapsed since a one-shot was armed, its
\* task has not been invoked and isRunning() is true; a tick() that invokes
\* something invokes the armed task, at or after the deadline; and after a
\* tick() at or after the deadline the task has been invoked.
OneShotNeverEarly ==
    OneShot =>
        /\ (now - arm.at < arm.dur => arm.fired = 0 /\ isRunning(timer, now).r)
        /\ (op = "tick" /\ calls # <<>> =>
                calls = <<arm.task>> /\ now - arm.at >= arm.dur)
        /\ (op = "tick" /\ now - arm.at >= arm.dur => arm.fired >= 1)

\* The tick() that invokes the task of a one-shot of two milliseconds, two
\* milliseconds after it was armed.
OneShotNeverEarlyWitness ==
    /\ OneShot /\ arm.dur = 2
    /\ op = "tick" /\ calls = <<arm.task>>
    /\ now = arm.at + 2

\* C3: a schedule call made while isRunning() is true returns false and leaves
\* the callback, the duration, the start time stamp, started, repeatMode and the
\* repetition count as they were.
BusyRejection ==
    [][(isRunning(timer, now).r /\ op' \in SchedOps) =>
            (ret' = FALSE /\ SameCycle(timer, timer'))]_vars

\* A schedule call was rejected while an armed task was waiting for its
\* deadline.
BusyRejectionWitness ==
    /\ op \in SchedOps /\ ret = FALSE
    /\ isRunning(timer, now).r
    /\ arm.kind # "none" /\ arm.clean /\ timer._callback = arm.task

\* C4: a schedule call that returns false leaves the duration, the callback,
\* the start time stamp, started, repeatMode and the repetition count as they
\* were.
RejectedLeavesState ==
    [][(op' \in SchedOps /\ ret' = FALSE) => SameCycle(timer, timer')]_vars

\* C5: while a registered callback is awaiting, a schedule call returns false.
AwaitingRejects ==
    [][(Awaiting /\ op' \in SchedOps) => ret' = FALSE]_vars

\* C6: a counted interval of n >= 1 repetitions and period >= 1 that is only
\* polled invokes its task at most n times, the first time on the first tick();
\* while it is started the task is registered and the counter holds what is
\* left; a tick() leaves no elapsed period unserved; and once it has stopped the
\* task was invoked exactly n times and the callback is cleared.
CountedRepeatTerminates ==
    CountedRepeat =>
        /\ arm.fired <= arm.times
        /\ (op = "tick" => arm.fired >= 1)
        /\ (hasStarted(timer) =>
                /\ timer._callback = arm.task
                /\ timer._repetitionCount = arm.times - arm.fired)
        /\ (op = "tick" /\ hasStarted(timer) => isRunning(timer, now).r)
        /\ (~hasStarted(timer) =>
                /\ arm.fired = arm.times
                /\ timer._callback = NULL
                /\ ~isRunning(timer, now).r)

\* A counted interval of three repetitions has stopped, and a tick() after that
\* invoked nothing.
CountedRepeatTerminatesWitness ==
    /\ CountedRepeat /\ arm.times = 3 /\ arm.fired = 3
    /\ ~hasStarted(timer)
    /\ op = "tick" /\ calls = <<>>
    /\ now > arm.at + 2 * arm.dur

\* C7: an interval without a count, period >= 1, polled at every value of
\* millis(): after every tick() the task has been invoked once more than the
\* number of full periods elapsed, and the timer stays started with the task
\* registered.
InfiniteRepeatRunsForever ==
    InfiniteRepeat =>
        /\ hasStarted(timer)
        /\ timer._callback = arm.task
        /\ (op = "tick" => arm.fired = ((now - arm.at) \div arm.dur) + 1)

\* C8: one tick() calls the callback at most once.
TickInvokesAtMostOnce == Len(calls) <= 1

\* C9: a tick() on a timer whose callback is null does not go through the null
\* pointer and calls nothing.
TickWithoutCallbackIsNoOp ==
    [][(timer._callback = NULL /\ op' = "tick") =>
            (~crashed' /\ calls' = <<>>)]_vars

\* C10: after stop() on an armed timer, and until start() or a schedule call,
\* no tick() calls the callback.
StopCancels ==
    [][(arm.stopped /\ op' = "tick") => calls' = <<>>]_vars

\* An interval cycle has ended: the interval ran until tick() stopped it, or it
\* was stopped and reset() by the embedder; nothing is registered or started.
IntervalEnded ==
    /\ arm.kind = "interval"
    /\ arm.clean \/ arm.stopped
    /\ ~hasStarted(timer)
    /\ timer._callback = NULL

\* C11: once an interval cycle has ended, the timer is not running and a new
\* setInterval(period, times, task) returns true.
CycleRepeatable ==
    [][(IntervalEnded /\ op' = "setIntervalTimes") =>
            (~isRunning(timer, now).r /\ ret' = TRUE)]_vars

\* C13: after setInterval(period, 0, task) succeeded and the timer was only
\* polled, the task has not been invoked.
ZeroTimesNeverFires ==
    (arm.kind = "interval" /\ arm.clean /\ arm.times = 0) => arm.fired = 0

\* C14: stop() on a started timer returns the time elapsed since it was
\* started, whether or not the duration has been reached.
StopReturnsElapsed ==
    [][(hasStarted(timer) /\ op' = "stop") => ret' = getEllapsed(timer, now)]_vars

\* C15: start() while isRunning() is true has no effect on the pending
\* deadline: the start time stamp and started stay as they were.
StartWhileRunningNoEffect ==
    [][(isRunning(timer, now).r /\ op' = "start") =>
            /\ timer'._last = timer._last
            /\ timer'._started = timer._started]_vars

\* C17: after setInterval with a negative count, and the timer only polled, the
\* repetition counter is never 0 and the interval is never stopped by tick().
NegativeCountIsForever ==
    (arm.kind = "interval" /\ arm.clean /\ arm.times < 0) =>
        /\ timer._repetitionCount # 0
        /\ hasStarted(timer)

\* C16: two stop() calls in a row, with nothing but the passing of time between
\* them: isRunning() is false after each, and the second returns at least what
\* the first returned.
StopIdempotent ==
    /\ stops # <<>> => ~isRunning(timer, now).r
    /\ Len(stops) = 2 => stops[2] >= stops[1]

\* C12: in an interval cycle of period >= 1 that was only polled, a tick()
\* that invokes the task invokes it once, and not before a full period has
\* passed since the invocation before it.
IntervalGap ==
    [][(/\ arm.kind = "interval" /\ arm.clean /\ arm.dur >= 1
        /\ op' = "tick" /\ calls' # <<>>) =>
            /\ Len(calls') = 1
            /\ arm.last >= 0 => now' - arm.last >= arm.dur]_vars

\* tick() at `m` gets to the branch of the exhausted counter (lines 56-60): the
\* duration is reached, a callback is registered, the timer repeats and, after
\* the first-tick block, the counter is 0.
TakesExhausted(t, m) ==
    LET f == tickFirst(t, m)
        d == isDone(f.t, m)
    IN  /\ ~f.crash
        /\ d.r
        /\ d.t._callback # NULL
        /\ d.t._repeatMode
        /\ d.t._repetitionCount = 0

\* A counted interval that was only polled is about to end in the next tick().
CountedEnds ==
    /\ arm.kind = "interval" /\ arm.clean /\ arm.times >= 1
    /\ TakesExhausted(timer, now)

\* The state the exhausted branch leaves: counter 0, no callback, not started,
\* duration and repeatMode as before.
EndState ==
    /\ timer'._repetitionCount = 0
    /\ timer'._callback = NULL
    /\ ~timer'._started
    /\ timer'._time = timer._time
    /\ timer'._repeatMode = timer._repeatMode

\* C18 as stated: the tick() that takes the exhausted branch of a counted
\* interval leaves the end state and invokes no callback.
ExhaustedTickSilent ==
    [][(CountedEnds /\ op' = "tick") => (EndState /\ calls' = <<>>)]_vars

\* C18: the tick() that takes the exhausted branch of a counted interval leaves
\* the end state; it invokes no callback when an earlier tick() was the
\* interval's first, and invokes the task once, in its first-tick block, when it
\* is itself the interval's first tick().
ExhaustedTick ==
    [][(CountedEnds /\ op' = "tick") =>
            /\ EndState
            /\ calls' = IF timer._execOnce THEN <<>> ELSE <<arm.task>>]_vars

\* A counted interval of period >= 1 was ended by its first tick(), which came
\* late and invoked the task before it took the exhausted branch.
ExhaustedTickWitness ==
    /\ arm.kind = "interval" /\ arm.clean /\ arm.times = 1 /\ arm.dur >= 1
    /\ op = "tick"
    /\ calls = <<arm.task>>
    /\ timer._callback = NULL
    /\ ~timer._started
    /\ timer._repetitionCount = 0

\* The next tick() invokes the one-shot callback that schedules again, and the
\* setTimeout(ReDelay, B) in it returns true.
InnerAccepted ==
    /\ arm.kind = "timeout" /\ arm.clean /\ arm.task = REARM
    /\ tick(timer, now).inner = <<TRUE>>

\* C19: when the setTimeout(D, B) called by the one-shot callback returned
\* true, B is registered and the timer is started when tick() returns.
RescheduleHonoured ==
    [][(InnerAccepted /\ op' = "tick") =>
            (timer'._callback = "B" /\ timer'._started)]_vars

====
